---- MODULE Spec2Model ----
(***************************************************************************)
(* The Experience engine of src/src/js/experience.js and its bootstrap in  *)
(* src/src/js/main.js, as a state machine.                                 *)
(*                                                                         *)
(* JavaScript runs every callback to completion on one thread, so each     *)
(* action below is one whole callback: the constructor (with the first     *)
(* _tick it calls), an animation-frame callback, the deferred              *)
(* _initScrollAnimations timer, an input listener, ScrollTrigger's update  *)
(* of the registered triggers, destroy().                                  *)
(*                                                                         *)
(* Units: progress, pointer coordinates, amplitudes, scales and the aspect *)
(* ratio are in thousandths; positions are in millionths of a world unit;  *)
(* time is in clock quanta.                                                *)
(***************************************************************************)
EXTENDS Integers, Sequences, FiniteSets, TLC

(***************************************************************************)
(* Bounds of the model.                                                    *)
(***************************************************************************)
\* _tick runs in one behaviour
MaxFrames == 3
\* destroy() calls in one behaviour
MaxDestroy == 2
\* scroll positions the page can be scrolled to: k/ScrollSteps of the extent
ScrollSteps == 2

(***************************************************************************)
(* Program constants.                                                      *)
(***************************************************************************)
\* five section groups, at y = 0, -10, -20, -30, -40
SectionCount == 5
\* camera.position.y = self.progress * -40
CameraTravel == 40
\* the section triggers start at 'top 80%' and end at 'bottom 20%'
TriggerStartPct == 80
TriggerEndPct == 20
\* damping of the camera sway and of the light follow, in percent per tick
CameraDampPct == 5
LightDampPct == 8

\* index of the section each section trigger watches
SectionOf(id) ==
  IF id = "features" THEN 1
  ELSE IF id = "showcase" THEN 2
  ELSE IF id = "stats" THEN 3
  ELSE 4

\* viewport sizes window.innerWidth x window.innerHeight can take
Sizes == {<<800, 600>>, <<600, 800>>}

\* clock.getDelta() between two ticks, in clock quanta
Deltas == {0, 1}

\* where the pointer is moved to: the top-right corner of the viewport, which
\* normalises to (1, 1)
PointerSpots == {"topRight"}

(***************************************************************************)
(* Fields of the instance.  The constructor and the _init* methods assign  *)
(* the fields of AssignedFields; the update and teardown code also reads   *)
(* fields that no code assigns, which are undefined at run time.           *)
(***************************************************************************)
AssignedFields ==
  {"canvas", "dimensions", "mouse", "clock", "time", "scrollProgress",
   "currentSection", "scrollY", "barHeights", "waveAmplitude",
   "contactSphereScale", "meshes", "renderer", "scene", "camera",
   "mouseLight", "heroGroup", "featuresGroup", "showcaseGroup", "statsGroup",
   "contactGroup", "particleUniforms", "particleSystem"}

\* an instance on which _initGeometries also assigned this.featuresMeshes
HasWithFeaturesMeshes(field) == field \in AssignedFields \cup {"featuresMeshes"}

Has(field) == field \in AssignedFields

\* the handles a caller can pass to new Experience(canvas)
CanvasArgs == {"element", "null", "undefined"}

\* featureXPositions: the layout x of the three feature polyhedra
FeatureLayoutX == <<-2500, 0, 2500>>

\* offsets[i].x: where each polyhedron flies in from, relative to its layout
FeatureOffsetX == <<-5000, 0, 5000>>

\* a pipeline that distorts before it blooms
DistortionBeforeBloom == <<"render", "chromaticAberration", "bloom">>

\* the passes _initPostProcessing adds to the composer, in the order added
PostProcessingPasses == <<"render", "bloom", "chromaticAberration">>

VARIABLES
  \* ---- environment
  innerSize,        \* <<window.innerWidth, window.innerHeight>>
  winScrollY,       \* window.scrollY
  layout,           \* how high the page's sections are: "viewport" | "fixed"
  \* ---- lifecycle
  phase,            \* "new" | "running" (constructor returned) | "failed" (it threw)
  canvas,           \* this.canvas: "unset" | "element" | "null" | "undefined"
  renderer,         \* "none" | "live": this.renderer
  composer,         \* TRUE when this.composer and this.chromaticAberrationPass exist
  passes,           \* composer.passes, in the order of the addPass calls
  canvasInDom,      \* renderer.domElement.parentNode is set
  disposals,        \* dispose() calls made on each resource
  listeners,        \* listeners registered on window: <<event type, function>>
  timerPending,     \* the 100 ms setTimeout of the constructor has not fired
  triggers,         \* ScrollTrigger.getAll(): the registered triggers
  destroyCalls,     \* destroy() calls made
  destroyLog,       \* the steps the last destroy() performed, in order
  \* ---- render loop
  pending,          \* handles of the animation frames requested and not yet run
  animFrameId,      \* this._animFrameId; 0 is undefined/null
  rafCalls,         \* requestAnimationFrame calls made; the last handle given out
  frames,           \* _tick runs started
  clockRunning,     \* this.clock has been started by a getDelta()
  time,             \* this.time
  tickThrew,        \* the last _tick threw
  renderCount,      \* frames submitted: composer.render() calls
  tickLog,          \* the steps the last _tick performed, in order
  \* ---- engine state
  dimensions,       \* this.dimensions
  mouse,            \* this.mouse, thousandths
  scrollY,          \* this.scrollY
  scrollProgress,   \* this.scrollProgress, thousandths
  currentSection,   \* this.currentSection
  barHeights,       \* this.barHeights, thousandths
  waveAmplitude,    \* this.waveAmplitude, thousandths
  contactSphereScale, \* this.contactSphereScale, thousandths
  scrollVelocity,   \* this._scrollVelocity, thousandths
  prevScrollY,      \* this._prevScrollY, thousandths
  cameraAspect,     \* camera.aspect, thousandths
  rendererSize,     \* size given to renderer.setSize
  composerSize,     \* size given to composer.setSize
  camPos,           \* camera.position, millionths
  lightPos,         \* mouseLight.position, millionths
  particleRot,      \* particleSystem.rotation, in units of delta/100
  \* ---- ScrollTrigger instances
  trigP,            \* self.progress of each trigger, thousandths
  scrubbedBack,     \* history: a section trigger's progress has decreased
  featureX,         \* position.x of the three feature polyhedra, thousandths
  \* ---- particle shader
  samplePos,        \* the point the shader's curlNoise is sampled at, millionths
  divergence,       \* <<>>, or the divergence measured at samplePos, millionths
  \* ---- scene objects and shader programs
  uniforms,         \* the uniform sets of the hero, wave and particle programs
  meshScale,        \* scale of the contact wireframe sphere, scale.y of the bars
  particleAttrs     \* the particle geometry's attribute arrays

envVars == <<innerSize, winScrollY, layout>>
lifeVars == <<phase, canvas, renderer, composer, passes, canvasInDom, disposals,
              listeners, timerPending, triggers, destroyCalls, destroyLog>>
loopVars == <<pending, animFrameId, rafCalls, frames, clockRunning, time, tickThrew,
              renderCount, tickLog>>
inputVars == <<dimensions, mouse, scrollY, scrollProgress, currentSection>>
scalarVars == <<barHeights, waveAmplitude, contactSphereScale, scrollVelocity,
                prevScrollY>>
viewVars == <<cameraAspect, rendererSize, composerSize>>
sceneVars == <<camPos, lightPos, particleRot>>
trigVars == <<trigP, scrubbedBack, featureX>>
gpuVars == <<samplePos, divergence>>
gfxVars == <<uniforms, meshScale, particleAttrs>>

vars == <<envVars, lifeVars, loopVars, inputVars, scalarVars, viewVars,
          sceneVars, trigVars, gpuVars, gfxVars>>

(***************************************************************************)
(* Arithmetic helpers.                                                     *)
(***************************************************************************)
Min(a, b) == IF a < b THEN a ELSE b
Max(a, b) == IF a > b THEN a ELSE b
Abs(a) == IF a < 0 THEN -a ELSE a

\* a / b rounded toward zero, as the fixed-point image of a real quotient
Quot(a, b) == IF a >= 0 THEN a \div b ELSE -((-a) \div b)

Clamp(v, lo, hi) == Max(lo, Min(hi, v))

(***************************************************************************)
(* The particle vertex shader's noise (experience.js 506-572), in fixed    *)
(* point: a float is held as its millionths, a vec3 as a tuple.  The       *)
(* lattice steps (permute4, the gradient index j, x_, y_) are integers in  *)
(* the shader too and are computed exactly.  Seven gradients have          *)
(* |x| + |y| = 1, so the sign of h rests on the rounding of the literal    *)
(* 0.142857142857: in single precision, the highp float of WebGL, it       *)
(* rounds above 1/7, which puts h just above 0 when x < 0 and just below   *)
(* when x > 0, with and without a fused multiply-add.                      *)
(***************************************************************************)
\* 1.0 in millionths
Fix == 1000000

\* a * b of two fixed-point numbers, within 32-bit intermediate products
FixMul(a, b) ==
  LET ah == a \div 1000
      al == a % 1000
      bh == b \div 1000
      bl == b % 1000
  IN  ah * bh + (ah * bl + al * bh + (al * bl) \div 1000) \div 1000

dot(a, b) == FixMul(a[1], b[1]) + FixMul(a[2], b[2]) + FixMul(a[3], b[3])

step(edge, x) == IF x >= edge THEN 1 ELSE 0

mod289(x) == x % 289

permute4(x) == mod289((x * 34 + 1) * x)

taylorInvSqrt4(r) == 1792843 - FixMul(853735, r)

\* x_ * ns.x + ns.y: the lattice coordinate (4 x_ - 13) / 14, rounded
LatticeCoord(x_) == (2 * (4 * x_ - 13) * Fix + 14) \div 28

\* the value of a one-element set: binds an intermediate result to a name
The(S) == CHOOSE y \in S : TRUE

\* the gradient p0..p3, before normalisation, that the index j selects
LatticeGradient(j) ==
  LET x_ == j \div 7
      y_ == j % 7
      x == LatticeCoord(x_)
      y == LatticeCoord(y_)
      h == Fix - Abs(x) - Abs(y)
      h14 == 14 - Abs(4 * x_ - 13) - Abs(4 * y_ - 13)
      sh == IF h14 < 0 \/ (h14 = 0 /\ x > 0) THEN -1 ELSE 0
      s(b) == IF b < 0 THEN -1 ELSE 1
  IN  <<x + s(x) * sh * Fix, y + s(y) * sh * Fix, h>>

\* p0 *= norm.x
Normalised(p0) ==
  The({ <<FixMul(p0[1], norm), FixMul(p0[2], norm), FixMul(p0[3], norm)>> :
          norm \in {taylorInvSqrt4(dot(p0, p0))} })

\* the normalised gradient that the permutation value p selects
Gradient(p) == The({ Normalised(p0) : p0 \in {LatticeGradient(p % 49)} })

\* i = floor(v + dot(v, C.yyy))
Cell(v) ==
  LET s == (v[1] + v[2] + v[3]) \div 3
  IN  <<(v[1] + s) \div Fix, (v[2] + s) \div Fix, (v[3] + s) \div Fix>>

\* x0 = v - i + dot(i, C.xxx)
Unskew(v, i) ==
  LET t == ((i[1] + i[2] + i[3]) * Fix) \div 6
  IN  <<v[1] - i[1] * Fix + t, v[2] - i[2] * Fix + t, v[3] - i[3] * Fix + t>>

\* the offsets of the four corners of the simplex: 0, i1, i2, 1
Corners(x0) ==
  LET g == <<step(x0[2], x0[1]), step(x0[3], x0[2]), step(x0[1], x0[3])>>
      l == <<1 - g[1], 1 - g[2], 1 - g[3]>>
      i1 == <<Min(g[1], l[3]), Min(g[2], l[1]), Min(g[3], l[2])>>
      i2 == <<Max(g[1], l[3]), Max(g[2], l[1]), Max(g[3], l[2])>>
  IN  <<<<0, 0, 0>>, i1, i2, <<1, 1, 1>>>>

\* x0, x1, x2, x3: the offset from corner c, with C.xxx, C.yyy, 1.0 - D.yyy
CornerOffset(x0, corner, c) ==
  LET skew == <<0, 166667, 333333, 500000>>
  IN  <<x0[1] - corner[c][1] * Fix + skew[c],
        x0[2] - corner[c][2] * Fix + skew[c],
        x0[3] - corner[c][3] * Fix + skew[c]>>

\* the permutation value of the corner at offset o of cell i
Hash(i, o) ==
  permute4(permute4(permute4(mod289(i[3]) + o[3]) + mod289(i[2]) + o[2])
           + mod289(i[1]) + o[1])

\* m * m after m = m * m, of m = max(0.6 - dot(x, x), 0.0)
Falloff(x) ==
  The({ The({ FixMul(m2, m2) : m2 \in {FixMul(m1, m1)} }) :
          m1 \in {Max(600000 - dot(x, x), 0)} })

\* the contribution of corner c: m^4 * dot(p_c, x_c)
SimplexTerm(x0, i, corner, c) ==
  The({ The({ FixMul(m, d) : m \in {Falloff(x)}, d \in {dot(grad, x)} }) :
          x \in {CornerOffset(x0, corner, c)},
          grad \in {Gradient(Hash(i, corner[c]))} })

SimplexSum(v, i) ==
  The({ The({ 42 * (SimplexTerm(x0, i, corner, 1) + SimplexTerm(x0, i, corner, 2)
                    + SimplexTerm(x0, i, corner, 3) + SimplexTerm(x0, i, corner, 4)) :
                corner \in {Corners(x0)} }) :
          x0 \in {Unskew(v, i)} })

snoise3(v) ==
  The({ The({ SimplexSum(q, i) : i \in {Cell(q)} }) : q \in {v} })

\* float eps = 0.01
Eps == 10000

\* p + d along axis k
Shift(p, k, d) == [p EXCEPT ![k] = @ + d]

curlNoise(p) ==
  LET d(k) == (snoise3(Shift(p, k, Eps)) - snoise3(Shift(p, k, -Eps)))
                * (Fix \div (2 * Eps))
  IN  <<d(2), d(3), d(1)>>

\* the step of the central differences that estimate the divergence: the
\* shader's own eps, for which the differences of a curl cancel exactly
DivStep == Eps

\* the finite-difference divergence of curlNoise at p
Divergence(p) ==
  LET F(k, d) == curlNoise(Shift(p, k, d))[k]
  IN  ((F(1, DivStep) - F(1, -DivStep)) + (F(2, DivStep) - F(2, -DivStep))
        + (F(3, DivStep) - F(3, -DivStep))) * (Fix \div (2 * DivStep))

\* sample points along each axis
GridSize == 5

\* the sampled grid: GridSize^3 points 0.25 apart, off the simplex faces
SampleOrigin == <<10 * Eps, 14 * Eps, 17 * Eps>>

SampleGrid ==
  {<<SampleOrigin[1] + 25 * Eps * i, SampleOrigin[2] + 25 * Eps * j,
     SampleOrigin[3] + 25 * Eps * k>> : i, j, k \in 0..(GridSize - 1)}

\* the elements of a sequence
Range(seq) == {seq[i] : i \in DOMAIN seq}

Width(sz) == sz[1]
Height(sz) == sz[2]

\* camera.aspect = width / height
Aspect(sz) == (Width(sz) * 1000) \div Height(sz)

(***************************************************************************)
(* The page: five sections.  In the "viewport" layout each is one viewport *)
(* high (currentSection counts "full viewport heights", and the camera     *)
(* travel of 40 puts the last group in view at the bottom of the page), so *)
(* the document is SectionCount viewports long.  In the "fixed" layout     *)
(* each section is 140 px high whatever the viewport: a document of 700    *)
(* px, which a viewport 800 px high shows whole.                           *)
(***************************************************************************)
\* the height of one section of the page
SectionHeight(sz) == IF layout = "viewport" THEN Height(sz) ELSE 140

\* document.documentElement.scrollHeight: the content, at least the viewport
ScrollHeight(sz) == Max(SectionCount * SectionHeight(sz), Height(sz))

\* maxScroll of the scroll listener
MaxScroll(sz) == ScrollHeight(sz) - Height(sz)

\* the positions the page is scrolled to in a viewport of size sz
ScrollStops(sz) == {(k * MaxScroll(sz)) \div ScrollSteps : k \in 0..ScrollSteps}

\* clientX, clientY of a pointer spot in a viewport of size sz
ClientPos(spot, sz) ==
  IF spot = "topRight" THEN <<Width(sz), 0>> ELSE <<0, Height(sz)>>

(***************************************************************************)
(* The listeners' computations.                                            *)
(***************************************************************************)
\* this.scrollProgress = maxScroll > 0 ? this.scrollY / maxScroll : 0
ScrollProgressOf(y, sz) ==
  IF MaxScroll(sz) > 0 THEN (y * 1000) \div MaxScroll(sz) ELSE 0

\* Math.floor(this.scrollY / this.dimensions.height)
SectionIndex(y, dims) == y \div Height(dims)

\* the mousemove listener's normalisation to -1..1
NormalizeMouse(client, dims) ==
  << Quot(client[1] * 2000, Width(dims)) - 1000,
     1000 - Quot(client[2] * 2000, Height(dims)) >>

(***************************************************************************)
(* ScrollTrigger: the progress of a trigger at scroll position y.          *)
(***************************************************************************)
TriggerIds == {"page", "features", "showcase", "contact"}

\* scroll position at which the trigger starts / ends: the page trigger runs
\* from 'top top' to 'bottom bottom' of the document, a section trigger from
\* the section's top at 80% of the viewport to its bottom at 20%
TriggerStart(id, sz) ==
  IF id = "page" THEN 0
  ELSE SectionOf(id) * SectionHeight(sz) - (TriggerStartPct * Height(sz)) \div 100

TriggerEnd(id, sz) ==
  IF id = "page" THEN MaxScroll(sz)
  ELSE (SectionOf(id) + 1) * SectionHeight(sz)
         - (TriggerEndPct * Height(sz)) \div 100

\* self.progress = clamp01((scroll - start) / change).  ScrollTrigger's refresh
\* sets change = end - start || (start -= 0.01) && 0.001: a trigger of length
\* zero is given the length 0.001 and starts 0.01 earlier, so that at its
\* start it is already complete.
TriggerProgress(id, y, sz) ==
  LET start == TriggerStart(id, sz)
      end == Max(start, TriggerEnd(id, sz))
  IN  IF end = start
      THEN IF y >= start THEN 1000 ELSE 0
      ELSE Clamp(Quot((y - start) * 1000, end - start), 0, 1000)

(***************************************************************************)
(* The onUpdate callbacks' computations.                                   *)
(***************************************************************************)
\* gsap.utils.interpolate(a, b, t) on numbers
Interpolate(a, b, t) == a + Quot((b - a) * t, 1000)

\* showcase onUpdate: amplitude 0 -> 0.5 -> 0 across the window
WaveOf(p) ==
  IF p < 500 THEN Interpolate(0, 500, p * 2)
  ELSE Interpolate(500, 0, (p - 500) * 2)

\* contact onUpdate: 1 + self.progress * 1.5
ContactScaleOf(p) == 1000 + Quot(p * 1500, 1000)

\* a page onUpdate that measures the camera travel from one section down
CameraYOneSectionDown(p) == -((p * CameraTravel * 1000) + 10000000)

\* page onUpdate: camera.position.y = self.progress * -40
CameraYOf(p) == -(p * CameraTravel * 1000)

\* gsap.set(mesh.position, {x: mesh.position.x + from.x, ...}) on each mesh
FeaturesSet(xs) == [i \in 1..3 |-> xs[i] + FeatureOffsetX[i]]

\* features onEnter: gsap.to(mesh.position, {x: mesh.position.x - from.x, ...}),
\* the target taken from the position the mesh has when the trigger is
\* entered; the value is where the tween comes to rest
FeaturesOnEnter(xs) == [i \in 1..3 |-> xs[i] - FeatureOffsetX[i]]

(***************************************************************************)
(* The per-tick updates.                                                   *)
(***************************************************************************)
\* a damping that adds the whole distance on top of the fraction
DampOvershoot(cur, target, pct) == cur + Quot((target - cur) * (pct + 100), 100)

\* cur += (target - cur) * pct/100
Damp(cur, target, pct) == cur + Quot((target - cur) * pct, 100)

\* a camera sway that reads the pointer position of construction time
UpdateCameraFromStalePointer(cam, m) ==
  [cam EXCEPT !.x = Damp(cam.x, 0, CameraDampPct),
              !.z = Damp(cam.z, 10000000, CameraDampPct)]

\* _updateCamera: sway toward mouse.x * 0.5 and 10 - mouse.y * 0.5
UpdateCamera(cam, m) ==
  IF ~Has("camera") \/ ~Has("mouse") THEN cam
  ELSE [cam EXCEPT !.x = Damp(cam.x, m[1] * 500, CameraDampPct),
                   !.z = Damp(cam.z, 10000000 - m[2] * 500, CameraDampPct)]

\* _updateMouseLight: follow (mouse.x * 8, mouse.y * 8, 5)
UpdateMouseLight(l, m) ==
  IF ~Has("mouseLight") \/ ~Has("mouse") THEN l
  ELSE [x |-> Damp(l.x, m[1] * 8000, LightDampPct),
        y |-> Damp(l.y, m[2] * 8000, LightDampPct),
        z |-> Damp(l.z, 5000000, LightDampPct)]

\* _updateParticles: rotation.y += delta * 0.05, rotation.x += delta * 0.02
UpdateParticleRotation(r, delta) ==
  IF ~Has("particleSystem") THEN r
  ELSE [x |-> r.x + delta * 2, y |-> r.y + delta * 5]

(***************************************************************************)
(* Shader uniform sets, scene objects and the particle geometry.           *)
(***************************************************************************)
\* The uniform sets that exist once the constructor has run _initShaders and
\* _initParticleSystem; a set is <<>> when it was not created.  _initShaders
\* returns at once unless this.torusKnot and this.showcasePlane exist.
CreatedUniforms ==
  [hero |-> IF Has("torusKnot") /\ Has("showcasePlane")
            THEN <<[uTime |-> 0, uScrollProgress |-> 0]>> ELSE <<>>,
   wave |-> IF Has("torusKnot") /\ Has("showcasePlane")
            THEN <<[uTime |-> 0, uAmplitude |-> 500, uScrollProgress |-> 0]>>
            ELSE <<>>,
   particle |-> <<[uTime |-> 0, uScrollProgress |-> 0, uMouse |-> <<0, 0>>]>>]

\* the uniform writes of one tick: _updateParticles writes through
\* this.particleShaderMaterial, _tick through this.heroShaderMaterial and
\* this.waveShaderMaterial
PushUniforms(u, t, amp, sp, m) ==
  [hero |-> IF Has("heroShaderMaterial") /\ u.hero # <<>>
            THEN <<[u.hero[1] EXCEPT !.uTime = t]>> ELSE u.hero,
   wave |-> IF Has("waveShaderMaterial") /\ u.wave # <<>>
            THEN <<[u.wave[1] EXCEPT !.uTime = t, !.uAmplitude = amp]>>
            ELSE u.wave,
   particle |-> IF Has("particleShaderMaterial") /\ u.particle # <<>>
                THEN <<[uTime |-> t, uScrollProgress |-> sp, uMouse |-> m]>>
                ELSE u.particle]

\* a mesh is created with the scale (1, 1, 1)
CreatedMeshScale ==
  [contactSphere |-> 1000, bars |-> <<1000, 1000, 1000, 1000>>]

\* _updateOnScroll: the sphere takes contactSphereScale || 1 through
\* this.contactSphere, each bar Math.max(0.001, barHeights[i] || 0) through
\* this.statsBars
UpdateOnScroll(ms, scale, bars) ==
  [contactSphere |-> IF Has("contactSphere")
                     THEN (IF scale # 0 THEN scale ELSE 1000)
                     ELSE ms.contactSphere,
   bars |-> IF Has("statsBars") /\ Has("barHeights")
            THEN <<Max(1, bars[1]), Max(1, bars[2]), Max(1, bars[3]),
                   Max(1, bars[4])>>
            ELSE ms.bars]

\* const count = 80000
ParticleCount == 80000

\* _initParticleSystem: the length of each attribute array, in floats, and
\* the writes made to the arrays since the geometry was built
InitParticleSystem ==
  [position |-> 3 * ParticleCount, aScale |-> ParticleCount,
   aRandomness |-> 3 * ParticleCount, aPhase |-> ParticleCount,
   aColor |-> 3 * ParticleCount, writes |-> 0]

\* a tick that moves the particles on the CPU and writes the position array
IntegrateOnCpu(attrs) == [attrs EXCEPT !.writes = @ + 1]

\* _updateParticles: the per-frame particle work writes the system's
\* rotation and the uniforms, and no attribute array
UpdateParticleBuffer(attrs) == attrs

(***************************************************************************)
(* Browser and library primitives the code calls.                          *)
(***************************************************************************)
\* the three arrow functions _initEventListeners registers on window
ArrowListeners ==
  {<<"resize", "arrow:resize">>, <<"mousemove", "arrow:mousemove">>,
   <<"scroll", "arrow:scroll">>}

\* window.removeEventListener(type, fn): removes that very function, if registered
RemoveEventListener(ls, type, fn) == ls \ {<<type, fn>>}

Listening(type) == \E l \in listeners : l[1] = type

\* a destroy() that leaves the requested frame in place
CancelNothing(p, id) == p

\* cancelAnimationFrame(id)
CancelAnimationFrame(p, id) == p \ {id}

\* the triggers _initScrollAnimations creates: those whose guard field exists
CreatedTriggers ==
  {"page", "showcase", "contact"}
    \cup (IF Has("featuresMeshes") THEN {"features"} ELSE {})
    \cup (IF Has("statsBars") THEN {"stats"} ELSE {})
    \cup (IF Has("parallaxGroups") THEN {"parallax"} ELSE {})

(***************************************************************************)
(* Initial state: the page is loaded and scrolled to the top; main.js has  *)
(* not yet constructed the Experience.  The fields hold the values the     *)
(* constructor's first lines give them, the feature polyhedra the          *)
(* positions _initGeometries gives them, the meshes, uniform sets and the   *)
(* particle geometry what _initGeometries, _initShaders and                *)
(* _initParticleSystem create.                                             *)
(***************************************************************************)
Start ==
  /\ innerSize \in Sizes
  /\ winScrollY = 0
  /\ phase = "new"
  /\ canvas = "unset"
  /\ renderer = "none"
  /\ composer = FALSE
  /\ passes = <<>>
  /\ canvasInDom = TRUE
  /\ disposals = [renderer |-> 0, composer |-> 0, scene |-> 0]
  /\ listeners = {}
  /\ timerPending = FALSE
  /\ triggers = {}
  /\ destroyCalls = 0
  /\ destroyLog = <<>>
  /\ pending = {}
  /\ animFrameId = 0
  /\ rafCalls = 0
  /\ frames = 0
  /\ clockRunning = FALSE
  /\ time = 0
  /\ tickThrew = FALSE
  /\ renderCount = 0
  /\ tickLog = <<>>
  /\ dimensions = innerSize
  /\ mouse = <<0, 0>>
  /\ scrollY = 0
  /\ scrollProgress = 0
  /\ currentSection = 0
  /\ barHeights = <<0, 0, 0, 0>>
  /\ waveAmplitude = 0
  /\ contactSphereScale = 1000
  /\ scrollVelocity = 0
  /\ prevScrollY = 0
  /\ cameraAspect = 0
  /\ rendererSize = <<0, 0>>
  /\ composerSize = <<0, 0>>
  /\ camPos = [x |-> 0, y |-> 0, z |-> 5000000]
  /\ lightPos = [x |-> 0, y |-> 0, z |-> 0]
  /\ particleRot = [x |-> 0, y |-> 0]
  /\ trigP = [id \in TriggerIds |-> 0]
  /\ scrubbedBack = FALSE
  /\ featureX = FeatureLayoutX
  /\ divergence = <<>>
  /\ uniforms = CreatedUniforms
  /\ meshScale = CreatedMeshScale
  /\ particleAttrs = InitParticleSystem

\* the page whose sections are one viewport high
Init == layout = "viewport" /\ samplePos = SampleOrigin /\ Start

\* a page whose sections have a fixed height, shorter than a tall viewport
InitShort == layout = "fixed" /\ samplePos = SampleOrigin /\ Start

(***************************************************************************)
(* _tick.                                                                  *)
(***************************************************************************)
\* the uOffset uniform of the chromatic aberration pass holds the number 0.003,
\* which has no set method
UOffsetHasSet == FALSE

\* _tick calls uniforms.uOffset.value.set(...) whenever the pass exists
TickThrows(comp) == comp /\ ~UOffsetHasSet

\* a _tick that requests the next frame as its last statement
TickRequestsFrameLast(threw) == ~threw

\* requestAnimationFrame is the first statement of _tick: the next frame is
\* requested whether or not the rest of the tick throws
TickRequestsFrame(threw) == TRUE

\* composer.render() is the last statement, reached when nothing threw
TickRenders(comp, threw) == comp /\ ~threw

\* the steps of _tick after requestAnimationFrame, in the order of the code;
\* a step guarded by a field that no code assigns is skipped
TickSteps(comp, threw) ==
  <<"time", "updateCamera", "updateMouseLight">>
    \o (IF Has("heroMesh") THEN <<"rotateHero">> ELSE <<>>)
    \o (IF Has("featuresMeshes") THEN <<"rotateFeatures">> ELSE <<>>)
    \o (IF Has("contactSphere") THEN <<"rotateContactSphere">> ELSE <<>>)
    \o <<"updateOnScroll", "updateParticles">>
    \o (IF Has("heroShaderMaterial") THEN <<"heroUniforms">> ELSE <<>>)
    \o (IF Has("waveShaderMaterial") THEN <<"waveUniforms">> ELSE <<>>)
    \o (IF comp THEN <<IF threw THEN "uOffset:throws" ELSE "uOffset">> ELSE <<>>)
    \o (IF TickRenders(comp, threw) THEN <<"render">> ELSE <<>>)

\* One run of _tick.  comp: this.composer exists; fired: the handle of the
\* animation frame that runs it (none for a direct call).
RunTick(comp, fired) ==
  /\ frames < MaxFrames
  /\ \E delta \in Deltas :
       \* the first getDelta() starts the clock and returns 0
       /\ clockRunning \/ delta = 0
       /\ time' = time + delta
       /\ particleRot' = UpdateParticleRotation(particleRot, delta)
  /\ LET threw == TickThrows(comp)
         requested == TickRequestsFrame(threw)
     IN  /\ rafCalls' = IF requested THEN rafCalls + 1 ELSE rafCalls
         /\ animFrameId' = IF requested THEN rafCalls + 1 ELSE animFrameId
         /\ pending' = (pending \ fired)
                         \cup (IF requested THEN {rafCalls + 1} ELSE {})
         /\ tickThrew' = threw
         /\ renderCount' = IF TickRenders(comp, threw) THEN renderCount + 1
                           ELSE renderCount
         /\ tickLog' = TickSteps(comp, threw)
  /\ frames' = frames + 1
  /\ clockRunning' = TRUE
  /\ camPos' = UpdateCamera(camPos, mouse)
  /\ lightPos' = UpdateMouseLight(lightPos, mouse)
  /\ meshScale' = UpdateOnScroll(meshScale, contactSphereScale, barHeights)
  /\ uniforms' = PushUniforms(uniforms, time', waveAmplitude, scrollProgress, mouse)
  /\ particleAttrs' = UpdateParticleBuffer(particleAttrs)

(***************************************************************************)
(* new Experience(canvas), called by main.js inside try/catch.  webgl: a   *)
(* WebGL context can be created; modules: the four post-processing modules *)
(* _initPostProcessing imports resolve.  The constructor has no handler of *)
(* its own: what an init step throws leaves it at once, and main.js logs   *)
(* it and keeps no instance.                                               *)
(*                                                                         *)
(* _initPostProcessing is written with await inside a method that is not   *)
(* async; its statements are read in the order written: the composer and   *)
(* its three passes exist when the method returns iff all four imports     *)
(* gave a module.  The steps that can throw are the renderer's creation    *)
(* and the first _tick().                                                  *)
(*                                                                         *)
(* c is the handle passed.  THREE.WebGLRenderer takes its canvas parameter *)
(* with the default createCanvasElement(): an undefined handle makes it    *)
(* render to a canvas of its own, which is in no document; a null handle   *)
(* is used as it is, and the renderer throws on it.                        *)
(***************************************************************************)
New(c) ==
  /\ phase = "new"
  /\ canvas' = c
  /\ \E webgl \in BOOLEAN, modules \in BOOLEAN :
       IF ~webgl \/ c = "null"
       THEN \* new THREE.WebGLRenderer throws in _initRenderer
            /\ phase' = "failed"
            /\ UNCHANGED <<gpuVars, gfxVars, envVars, renderer, composer, passes, canvasInDom,
                           disposals, listeners, timerPending, triggers,
                           destroyCalls, destroyLog, loopVars, inputVars,
                           scalarVars, viewVars, sceneVars, trigVars>>
       ELSE /\ renderer' = "live"
            /\ canvasInDom' = (c = "element")
            /\ rendererSize' = dimensions
            /\ cameraAspect' = Aspect(dimensions)
            /\ composer' = modules
            /\ passes' = IF modules THEN PostProcessingPasses ELSE passes
            /\ composerSize' = IF modules THEN dimensions ELSE composerSize
            /\ listeners' = listeners \cup ArrowListeners
            /\ timerPending' = TRUE
            /\ RunTick(modules, {})
            /\ phase' = IF tickThrew' THEN "failed" ELSE "running"
            /\ UNCHANGED <<gpuVars, envVars, disposals, triggers, destroyCalls,
                           destroyLog, inputVars, scalarVars, trigVars>>

\* main.js constructs the engine on the canvas element it found; without one
\* it returns before constructing
Construct == New("element")

\* a caller other than main.js passes whatever handle it has
ConstructAny == \E c \in CanvasArgs : New(c)

(***************************************************************************)
(* The browser runs a requested animation frame: the bound _tick.          *)
(***************************************************************************)
FrameCallback ==
  /\ \E h \in pending : RunTick(composer, {h})
  /\ UNCHANGED <<gpuVars, envVars, lifeVars, inputVars, scalarVars, viewVars, trigVars>>

(***************************************************************************)
(* A test harness holding the instance calls _tick() itself after          *)
(* destroy() ("teardown() followed by any further simulated tick").        *)
(***************************************************************************)
DirectTick ==
  /\ phase = "running"
  /\ destroyCalls > 0
  /\ RunTick(composer, {})
  /\ UNCHANGED <<gpuVars, envVars, lifeVars, inputVars, scalarVars, viewVars, trigVars>>

(***************************************************************************)
(* The constructor's setTimeout fires: _initScrollAnimations.              *)
(***************************************************************************)
TimerFire ==
  /\ timerPending
  /\ timerPending' = FALSE
  /\ triggers' = triggers \cup CreatedTriggers
  /\ trigP' = [id \in TriggerIds |-> IF id \in CreatedTriggers THEN 0 ELSE trigP[id]]
  /\ featureX' = IF Has("featuresMeshes") THEN FeaturesSet(featureX) ELSE featureX
  /\ contactSphereScale' = 1000
  /\ UNCHANGED <<gpuVars, gfxVars, envVars, phase, canvas, renderer, composer, passes,
                 canvasInDom, disposals, listeners, destroyCalls, destroyLog,
                 loopVars, inputVars, barHeights, waveAmplitude,
                 scrollVelocity, prevScrollY, viewVars, sceneVars,
                 scrubbedBack>>

(***************************************************************************)
(* ScrollTrigger updates the registered triggers: each trigger whose       *)
(* progress at the current scroll position differs from its self.progress  *)
(* takes the new progress and runs its onUpdate.                           *)
(***************************************************************************)
\* an onUpdate that only ever raises the amplitude
ShowcaseForwardOnly(amp, p) == Max(amp, WaveOf(p))

\* showcase onUpdate: the new this.waveAmplitude
ShowcaseOnUpdate(amp, p) == WaveOf(p)

\* contact onUpdate: the new this.contactSphereScale
ContactOnUpdate(scale, p) == ContactScaleOf(p)

\* the stats timeline tweens this.barHeights; it is built only when
\* this.statsBars exists
StatsOnUpdate(bars, p) == bars

ScrollTriggerUpdate ==
  LET now(id) == TriggerProgress(id, winScrollY, innerSize)
      changed == {id \in triggers \cap TriggerIds : now(id) # trigP[id]}
  IN  /\ changed # {}
      /\ trigP' = [id \in TriggerIds |-> IF id \in changed THEN now(id) ELSE trigP[id]]
      /\ scrubbedBack' = (scrubbedBack
                           \/ \E id \in changed \ {"page"} : now(id) < trigP[id])
      /\ IF "page" \in changed
         THEN /\ scrollProgress' = now("page")
              /\ scrollVelocity' = now("page") - prevScrollY
              /\ prevScrollY' = now("page")
              /\ camPos' = IF Has("camera")
                           THEN [camPos EXCEPT !.y = CameraYOf(now("page"))]
                           ELSE camPos
         ELSE UNCHANGED <<scrollProgress, scrollVelocity, prevScrollY, camPos>>
      /\ waveAmplitude' = IF "showcase" \in changed
                          THEN ShowcaseOnUpdate(waveAmplitude, now("showcase"))
                          ELSE waveAmplitude
      /\ contactSphereScale' = IF "contact" \in changed
                               THEN ContactOnUpdate(contactSphereScale, now("contact"))
                               ELSE contactSphereScale
      /\ barHeights' = IF "stats" \in triggers
                       THEN StatsOnUpdate(barHeights, 0)
                       ELSE barHeights
      \* onEnter: the scroll position has passed the start going forward
      /\ featureX' = IF "features" \in changed /\ trigP["features"] = 0
                     THEN FeaturesOnEnter(featureX)
                     ELSE featureX
      /\ UNCHANGED <<gpuVars, gfxVars, envVars, lifeVars, loopVars, dimensions, mouse, scrollY,
                     currentSection, viewVars, lightPos, particleRot>>

(***************************************************************************)
(* Input events.  A listener runs when it is registered on window.         *)
(***************************************************************************)
\* the scroll listener's three assignments, at scroll position y
ScrollListener(y, inner, dims) ==
  /\ scrollY' = y
  /\ scrollProgress' = ScrollProgressOf(y, inner)
  /\ currentSection' = SectionIndex(y, dims)

\* the user scrolls the page to another position
Scroll ==
  /\ phase # "new"
  /\ \E y \in ScrollStops(innerSize) \ {winScrollY} :
       /\ winScrollY' = y
       /\ IF Listening("scroll")
          THEN ScrollListener(y, innerSize, dimensions)
          ELSE UNCHANGED <<scrollY, scrollProgress, currentSection>>
  /\ UNCHANGED <<gpuVars, gfxVars, innerSize, layout, lifeVars, loopVars, dimensions, mouse,
                 scalarVars, viewVars, sceneVars, trigVars>>

\* the pointer moves to a corner of the viewport
MouseMove ==
  /\ phase # "new"
  /\ \E spot \in PointerSpots :
       mouse' = IF Listening("mousemove")
                THEN NormalizeMouse(ClientPos(spot, innerSize), dimensions)
                ELSE mouse
  /\ UNCHANGED <<gpuVars, gfxVars, envVars, lifeVars, loopVars, dimensions, scrollY,
                 scrollProgress, currentSection, scalarVars, viewVars,
                 sceneVars, trigVars>>

\* a resize that leaves the composer and its pass targets at their old size
ResizeSkipsComposer(comp, size, sz) == size

\* if (this.composer) this.composer.setSize(width, height): the composer sets
\* its two render targets and every pass to the size
ResizeComposer(comp, size, sz) == IF comp THEN sz ELSE size

\* The window takes another size.  The document keeps its five viewports, so a
\* scroll position beyond the new extent is clamped and a scroll event follows
\* the resize event.
Resize ==
  /\ phase # "new"
  /\ \E sz \in Sizes \ {innerSize} :
       LET y == Min(winScrollY, MaxScroll(sz))
           dims == IF Listening("resize") THEN sz ELSE dimensions
       IN  /\ innerSize' = sz
           /\ winScrollY' = y
           /\ dimensions' = dims
           /\ IF Listening("resize")
              THEN /\ cameraAspect' = Aspect(sz)
                   /\ rendererSize' = sz
                   /\ composerSize' = ResizeComposer(composer, composerSize, sz)
              ELSE UNCHANGED viewVars
           /\ IF y # winScrollY /\ Listening("scroll")
              THEN ScrollListener(y, sz, dims)
              ELSE UNCHANGED <<scrollY, scrollProgress, currentSection>>
  /\ UNCHANGED <<gpuVars, gfxVars, layout, lifeVars, loopVars, mouse, scalarVars, sceneVars,
                 trigVars>>

(***************************************************************************)
(* destroy(), called by the holder of the instance.                        *)
(***************************************************************************)
Destroy ==
  /\ phase = "running"
  /\ destroyCalls < MaxDestroy
  /\ destroyCalls' = destroyCalls + 1
  \* cancel the render loop
  /\ pending' = IF animFrameId # 0
                THEN CancelAnimationFrame(pending, animFrameId) ELSE pending
  /\ animFrameId' = 0
  \* remove event listeners: a fresh bound function, and the unassigned
  \* this._onMouseMove
  /\ listeners' = RemoveEventListener(
                    RemoveEventListener(listeners, "resize", "bound:_onResize"),
                    "mousemove", "undefined")
  \* kill all ScrollTriggers
  /\ triggers' = {}
  \* dispose the renderer, the composer's targets, the scene's objects
  /\ disposals' = [renderer |-> disposals.renderer + (IF renderer = "live" THEN 1 ELSE 0),
                   composer |-> disposals.composer + (IF composer THEN 1 ELSE 0),
                   scene |-> disposals.scene + (IF Has("scene") THEN 1 ELSE 0)]
  /\ canvasInDom' = IF renderer = "live" THEN FALSE ELSE canvasInDom
  /\ destroyLog' = (IF animFrameId # 0 THEN <<"cancelFrame">> ELSE <<>>)
                     \o <<"removeListeners", "killTriggers">>
                     \o (IF renderer = "live" THEN <<"disposeRenderer">> ELSE <<>>)
                     \o (IF composer THEN <<"disposeComposer">> ELSE <<>>)
                     \o (IF Has("scene") THEN <<"disposeScene">> ELSE <<>>)
  /\ UNCHANGED <<gpuVars, gfxVars, envVars, phase, canvas, renderer, composer, passes,
                 timerPending, rafCalls, frames, clockRunning, time, tickThrew,
                 renderCount, tickLog, inputVars, scalarVars, viewVars,
                 sceneVars, trigVars>>

(***************************************************************************)
(* Specifications.  Spec: the page in the browser.  SpecHarness: the page  *)
(* with a test harness that also calls _tick() after destroy().            *)
(* SpecShort: the page with sections of a fixed height, which a tall       *)
(* viewport shows whole.  SpecCaller: the page with a caller that passes   *)
(* the constructor any handle.                                             *)
(***************************************************************************)
Next ==
  \/ Construct
  \/ FrameCallback
  \/ TimerFire
  \/ ScrollTriggerUpdate
  \/ Scroll
  \/ MouseMove
  \/ Resize
  \/ Destroy

Spec == Init /\ [][Next]_vars

NextHarness ==
  \/ Next
  \/ DirectTick

SpecHarness == Init /\ [][NextHarness]_vars

SpecShort == InitShort /\ [][Next]_vars

NextCaller ==
  \/ ConstructAny
  \/ FrameCallback
  \/ TimerFire
  \/ ScrollTriggerUpdate
  \/ Scroll
  \/ MouseMove
  \/ Resize
  \/ Destroy

SpecCaller == Init /\ [][NextCaller]_vars

(***************************************************************************)
(* The shader sampled on a grid.  The GPU runs curlNoise for every         *)
(* particle of every frame; here one point of the grid is drawn and the    *)
(* divergence of the field is measured there by central differences.       *)
(***************************************************************************)
InitCurl == layout = "viewport" /\ samplePos \in SampleGrid /\ Start

SampleDivergence ==
  /\ divergence = <<>>
  /\ divergence' = <<Divergence(samplePos)>>
  /\ UNCHANGED <<envVars, lifeVars, loopVars, inputVars, scalarVars, viewVars,
                 sceneVars, trigVars, samplePos, gfxVars>>

NextCurl == SampleDivergence

SpecCurl == InitCurl /\ [][NextCurl]_vars

(***************************************************************************)
(* Claims.                                                                 *)
(***************************************************************************)
\* the engine fields a tick writes
tickState == <<time, camPos, lightPos, particleRot, tickThrew, renderCount>>

\* the engine fields the input listeners write
listenerState == <<dimensions, mouse, scrollY, scrollProgress, currentSection,
                   cameraAspect, rendererSize, composerSize>>

\* C1: after destroy() has returned, a further _tick() is a no-op: it throws
\* nothing, changes no engine state, touches no released resource and
\* requests no animation frame.
C1_TickAfterDestroyIsNoOp ==
  [][(destroyCalls > 0 /\ frames' # frames)
       => /\ UNCHANGED tickState
          /\ UNCHANGED <<pending, animFrameId, rafCalls>>]_vars

\* C2: when destroy() is called while the loop runs (a frame is pending), no
\* animation frame is pending once it has returned, and no tick runs again.
C2_DestroyStopsLoop ==
  /\ [](destroyCalls > 0 => pending = {})
  /\ [][destroyCalls > 0 => frames' = frames]_vars

\* C2 witness: destroy() cancelled the pending frame of a loop that had
\* already run a frame callback.
C2_Witness ==
  /\ destroyCalls = 1
  /\ Head(destroyLog) = "cancelFrame"
  /\ frames >= 2
  /\ pending = {}

\* C3: after destroy() has returned the resize, mousemove and scroll
\* listeners are detached: a later event changes none of the fields they
\* write.  (Only ScrollTrigger's update changes trigP; every other step
\* after destroy() must leave the listeners' fields alone.)
C3_EventsAfterDestroyChangeNothing ==
  [][(destroyCalls > 0 /\ destroyCalls' = destroyCalls /\ trigP' = trigP)
       => UNCHANGED listenerState]_vars

\* C4: after destroy() has returned no scroll trigger of the engine is
\* registered, whenever destroy() is called, also before the deferred
\* _initScrollAnimations timer has fired.
C4_NoTriggerAfterDestroy == destroyCalls > 0 => triggers = {}

\* the steps of destroy() that release GPU resources, and those that detach
ReleaseSteps == {"disposeRenderer", "disposeComposer", "disposeScene"}
DetachSteps == {"removeListeners", "killTriggers"}

\* C5: destroy() first cancels the pending tick, then releases the GPU
\* resources, then detaches the listeners and kills the triggers; and no
\* tick, listener or trigger callback can run once the resources are released.

C5_TeardownOrder ==
  destroyCalls > 0 =>
    /\ \A i, j \in DOMAIN destroyLog :
         /\ destroyLog[i] = "cancelFrame" => i = 1
         /\ (destroyLog[i] \in ReleaseSteps /\ destroyLog[j] \in DetachSteps)
              => i < j
    /\ pending = {}
    /\ listeners = {}
    /\ triggers = {}

\* C6: destroy() is idempotent: a second call throws nothing, releases no
\* resource a second time and leaves the engine as the first call left it.
C6_DestroyIdempotent ==
  [][(destroyCalls >= 1 /\ destroyCalls' = destroyCalls + 1)
       => UNCHANGED <<envVars, phase, renderer, composer, canvasInDom,
                      disposals, listeners, timerPending, triggers, loopVars,
                      inputVars, scalarVars, viewVars, sceneVars, trigVars>>]_vars

\* C7: when an initialisation step of the constructor throws, the engine has
\* not partially started: no animation frame is requested, no deferred timer
\* is pending, no listener is attached, and every resource created by the
\* earlier steps has been released.
C7_FailedConstructionLeavesNothing ==
  phase = "failed" =>
    /\ pending = {}
    /\ ~timerPending
    /\ listeners = {}
    /\ renderer = "live" => disposals.renderer > 0

\* C8: when post-processing fails to initialise (no composer), the engine
\* keeps running and every tick still renders the base scene.
C8_BaseSceneRendered ==
  (phase = "running" /\ ~composer /\ destroyCalls = 0)
    => (pending # {} /\ renderCount = frames)

\* C9: in every tick whose work throws, the next animation frame has
\* nevertheless been requested.
C9_FailingTickStillSchedules ==
  [][(frames' = frames + 1 /\ tickThrew')
       => /\ rafCalls' = rafCalls + 1
          /\ animFrameId' = rafCalls'
          /\ animFrameId' \in pending']_vars

\* C9 witness: a frame callback's tick threw and the next frame is pending.
C9_Witness ==
  /\ tickThrew
  /\ frames >= 2
  /\ animFrameId \in pending

C14_ResizeConsistent ==
  renderer = "live"
    => /\ dimensions = innerSize
       /\ rendererSize = dimensions
       /\ cameraAspect * Height(dimensions) <= Width(dimensions) * 1000
       /\ (cameraAspect + 1) * Height(dimensions) > Width(dimensions) * 1000
       /\ composer => composerSize = dimensions

\* C14 witness: an engine with a composer in a window resized to 800x600
\* (the page is scrolled to where only the 600x800 window puts it), a tick
\* having run.
C14_Witness ==
  /\ composer
  /\ innerSize = <<800, 600>>
  /\ winScrollY = 1600
  /\ frames >= 2
  /\ dimensions = <<800, 600>>
  /\ rendererSize = <<800, 600>>
  /\ composerSize = <<800, 600>>
  /\ cameraAspect = 1333

\* C15: with the pointer at the normalised (1, 1), every tick moves the
\* camera's x toward 0.5 and the point light's x toward 8 by the fraction
\* 0.05, respectively 0.08, of the remaining distance: neither value
\* decreases, neither passes its target.
C15_DampedApproach ==
  [][(mouse = <<1000, 1000>> /\ frames' = frames + 1)
       => /\ camPos.x <= camPos'.x
          /\ camPos'.x <= 500000
          /\ camPos'.x - camPos.x = ((500000 - camPos.x) * 5) \div 100
          /\ lightPos.x <= lightPos'.x
          /\ lightPos'.x <= 8000000
          /\ lightPos'.x - lightPos.x = ((8000000 - lightPos.x) * 8) \div 100]_vars

\* C15 witness: two ticks have run with the pointer at (1, 1); the camera
\* and the light are under way, short of their targets.
C15_Witness ==
  /\ mouse = <<1000, 1000>>
  /\ frames >= 3
  /\ camPos.x > 25000
  /\ camPos.x < 500000
  /\ lightPos.x > 640000
  /\ lightPos.x < 8000000

C17_ThreePassesFixedOrder ==
  /\ [](composer => passes = <<"render", "bloom", "chromaticAberration">>)
  /\ [][phase # "new" => passes' = passes]_vars

\* C17 witness: an engine with its three passes after ticks, a scroll and a
\* resize.
C17_Witness ==
  /\ composer
  /\ Len(passes) = 3
  /\ passes[3] = "chromaticAberration"
  /\ frames >= 3
  /\ innerSize = <<800, 600>>
  /\ winScrollY = 1600
  /\ scrollY = 1600

\* C18: new Experience with a missing (null or undefined) canvas handle, or
\* without a rendering capability, throws to the caller: the constructor
\* does not return an instance.
C18_MissingCanvasThrows ==
  /\ canvas \in {"null", "undefined"} => phase # "running"
  /\ (phase # "new" /\ renderer = "none") => phase = "failed"

\* the steps the claim names, in the order it gives them
ClaimedTickOrder ==
  <<"time", "updateCamera", "updateMouseLight", "updateOnScroll", "uOffset",
    "render">>

\* C20: every tick of an engine that has a composer performs its steps in
\* the fixed order (time, camera sway and light follow, scroll-dependent
\* updates, uniform push with the lens-distortion offset, frame submission)
\* and ends with exactly one frame submitted through the composer, after all
\* of the tick's state changes.
C20_TickEndsWithOneFrame ==
  [][(frames' = frames + 1 /\ composer')
       => /\ ~tickThrew'
          /\ renderCount' = renderCount + 1
          /\ tickLog' # <<>>
          /\ tickLog'[Len(tickLog')] = "render"
          /\ SelectSeq(tickLog', LAMBDA st : st \in Range(ClaimedTickOrder))
               = ClaimedTickOrder]_vars

\* the tolerance the measured divergence is held to: one unit, above the
\* 0.6 that the fixed point can differ from the shader's floats by
DivergenceTolerance == Fix

(***************************************************************************)
(* C19: the field curlNoise yields is approximately divergence-free: at    *)
(* every point of the sampled grid the finite-difference divergence of its *)
(* output stays below a small tolerance (here one unit, for a field whose  *)
(* components reach 3.7).                                                  *)
(***************************************************************************)
C19_DivergenceFree ==
  divergence # <<>> => Abs(divergence[1]) <= DivergenceTolerance

\* C21: after every completed tick the uniform sets mirror the engine state:
\* the time uniform of the hero, wave and particle programs is this.time,
\* the wave program's amplitude uniform is waveAmplitude, the particle
\* program's pointer uniform is the pointer position, and the
\* scroll-progress uniforms are scrollProgress.
C21_UniformsMirrorState ==
  [][(frames' = frames + 1 /\ ~tickThrew')
       => /\ uniforms'.particle # <<>>
          /\ uniforms'.particle[1].uTime = time'
          /\ uniforms'.particle[1].uMouse = mouse'
          /\ uniforms'.particle[1].uScrollProgress = scrollProgress'
          /\ uniforms'.hero # <<>>
          /\ uniforms'.hero[1].uTime = time'
          /\ uniforms'.hero[1].uScrollProgress = scrollProgress'
          /\ uniforms'.wave # <<>>
          /\ uniforms'.wave[1].uTime = time'
          /\ uniforms'.wave[1].uAmplitude = waveAmplitude'
          /\ uniforms'.wave[1].uScrollProgress = scrollProgress']_vars

\* C22: after every completed tick the scroll-driven scalars are applied to
\* the scene: the contact wireframe sphere's scale is contactSphereScale,
\* and the Y scale of stats bar i is max(0.001, barHeights[i]), for each of
\* the four bars.
C22_ScalarsAppliedToScene ==
  [][(frames' = frames + 1 /\ ~tickThrew')
       => /\ meshScale'.contactSphere = contactSphereScale'
          /\ \A i \in 1..4 : meshScale'.bars[i] = Max(1, barHeights'[i])]_vars

\* C23: scrolling through the stats section's trigger window drives the bar
\* heights from 0 to 1 with stagger: once the triggers have caught up with
\* the scroll position, at window progress 0 the four barHeights are 0, at
\* window progress 1 (the window fully traversed) all four are 1, and bar i
\* has not started rising unless bar i-1 has.
C23_BarsRiseAcrossStatsWindow ==
  (/\ phase # "new"
   /\ ~timerPending
   /\ trigP["page"] = TriggerProgress("page", winScrollY, innerSize))
    => /\ TriggerProgress("stats", winScrollY, innerSize) = 0
            => barHeights = <<0, 0, 0, 0>>
       /\ TriggerProgress("stats", winScrollY, innerSize) = 1000
            => barHeights = <<1000, 1000, 1000, 1000>>
       /\ \A i \in 2..4 : barHeights[i] > 0 => barHeights[i - 1] > 0

\* C24: in every reachable state, after any interleaving of scroll and
\* resize events, currentSection is floor(scrollY / viewport height), the
\* height being the window's current one.
C24_SectionFollowsViewport ==
  phase # "new" => currentSection = scrollY \div Height(innerSize)

\* what the input callbacks must leave alone: the accumulated time, the mesh
\* transforms, the shader uniforms and the animated scalars
notInputState == <<time, sceneVars, featureX, meshScale, uniforms, particleAttrs,
                   scalarVars>>

====
